---- MODULE Spec2Model ----
(***************************************************************************)
(* SmartParkIntelligence: the persistent record store (database.py), the   *)
(* session state and the retraining scheduler (app.py, update_data), the   *)
(* forecasting model's training entry point (prediction_model.py) and the  *)
(* synthetic occupancy generator (data_generator.py).                      *)
(*                                                                         *)
(* Time is in whole seconds; second 0 is a Monday, 00:00.  Ratios that the *)
(* code draws as floats are drawn here as integer percents or per-mille    *)
(* and the code's int() truncation is integer division.                    *)
(***************************************************************************)
EXTENDS Integers, Sequences, FiniteSets, TLC

VARIABLES
    now,              \* wall clock, datetime.now()
    lots,             \* table parking_lots, in id order
    areas,            \* table parking_areas, in id order
    records,          \* table occupancy_records, in insertion (id) order
    ss_keys,          \* the keys present in st.session_state
    historical_data,  \* st.session_state.historical_data
    model,            \* st.session_state.model
    last_update,      \* st.session_state.last_update
    real_time_data,   \* st.session_state.real_time_data
    run,              \* what the last script run that did something did (observation)
    triggers,         \* the update_data calls so far (observation)
    ticks,            \* number of clock advances so far
    gen               \* one call of a library function in progress, outside a script run

vars == <<now, lots, areas, records, ss_keys, historical_data, model,
          last_update, real_time_data, run, triggers, ticks, gen>>

storeVars == <<lots, areas, records>>
sessionVars == <<ss_keys, historical_data, model, last_update, real_time_data>>

-----------------------------------------------------------------------------
(* Bounds of the model *)

MaxTicks == 2
MaxTriggers == 2
SeedSteps == 1

(* Program constants *)

REFRESH_SECONDS == 900
RECENT_MINUTES == 15
HISTORY_DAYS == 7
SEED_DAYS == 7
NoArea == 0
MinuteSeconds == 60
HourSeconds == 3600
DaySeconds == 86400

-----------------------------------------------------------------------------
(* Generic helpers *)

Range(s) == {s[i] : i \in DOMAIN s}

Min2(a, b) == IF a <= b THEN a ELSE b
Max2(a, b) == IF a >= b THEN a ELSE b

RECURSIVE SumSeq(_)
SumSeq(s) == IF s = <<>> THEN 0 ELSE Head(s) + SumSeq(Tail(s))

Abs(a) == IF a >= 0 THEN a ELSE -a

\* Python's int(a / b), b # 0: the quotient truncated toward zero.
TruncDiv(a, b) ==
    IF (a >= 0) = (b > 0) THEN Abs(a) \div Abs(b) ELSE -(Abs(a) \div Abs(b))

(* datetime fields of a timestamp *)
DayOfWeek(t) == (t \div DaySeconds) % 7
HourOf(t) == (t \div HourSeconds) % 24
MinuteOf(t) == (t \div MinuteSeconds) % 60

-----------------------------------------------------------------------------
(* database.py: the catalog created by seed_database *)

SeedLots == <<
    [id |-> 1, name |-> "Collins Garage",       total_spaces |-> 1800],
    [id |-> 2, name |-> "Beard Garage",         total_spaces |-> 1500],
    [id |-> 3, name |-> "Laurel Garage",        total_spaces |-> 1700],
    [id |-> 4, name |-> "Crescent Hill Garage", total_spaces |-> 1600] >>

SeedAreas == <<
    [id |-> 1,  name |-> "Gold Zone",         total_spaces |-> 200,  lot_id |-> 1],
    [id |-> 2,  name |-> "Green Zone",        total_spaces |-> 900,  lot_id |-> 1],
    [id |-> 3,  name |-> "Resident Zone",     total_spaces |-> 500,  lot_id |-> 1],
    [id |-> 4,  name |-> "Non-Resident Zone", total_spaces |-> 200,  lot_id |-> 1],
    [id |-> 5,  name |-> "Staff Zone",        total_spaces |-> 400,  lot_id |-> 2],
    [id |-> 6,  name |-> "Student Zone",      total_spaces |-> 800,  lot_id |-> 2],
    [id |-> 7,  name |-> "Visitor Zone",      total_spaces |-> 200,  lot_id |-> 2],
    [id |-> 8,  name |-> "Reserved Zone",     total_spaces |-> 100,  lot_id |-> 2],
    [id |-> 9,  name |-> "Gold Zone",         total_spaces |-> 300,  lot_id |-> 3],
    [id |-> 10, name |-> "Green Zone",        total_spaces |-> 1000, lot_id |-> 3],
    [id |-> 11, name |-> "Visitor Zone",      total_spaces |-> 400,  lot_id |-> 3],
    [id |-> 12, name |-> "Staff Zone",        total_spaces |-> 500,  lot_id |-> 4],
    [id |-> 13, name |-> "Student Zone",      total_spaces |-> 900,  lot_id |-> 4],
    [id |-> 14, name |-> "Visitor Zone",      total_spaces |-> 200,  lot_id |-> 4] >>

(* The outcomes of the random draws, as integer percents.  A draw vector   *)
(* gives one outcome per area id (snapshot) or per (row, lot) (seeding):   *)
(* two different outcomes u, v, alternating, so that every single draw     *)
(* takes each outcome in some vector.                                      *)
SnapshotDrawSet == {30, 69}     \* np.random.uniform(0.3, 0.7)
VariationSet == {-10, 10}       \* random.uniform(-0.1, 0.1)

DrawAt(draw, k) == IF k % 2 = 1 THEN draw.u ELSE draw.v
DrawVectors(S) == {d \in [u : S, v : S] : d.u # d.v}
SnapshotDraws == DrawVectors(SnapshotDrawSet)
VariationDraws == DrawVectors(VariationSet)

-----------------------------------------------------------------------------
(* database.py: queries *)

\* get_parking_areas(lot_id): the areas of a lot, in id order
GetParkingAreas(as, lot_id) == SelectSeq(as, LAMBDA a : a.lot_id = lot_id)

LotOf(ls, lot_id) == CHOOSE l \in Range(ls) : l.id = lot_id

\* OccupancyRecord(...) as add_occupancy_record builds it from a timestamp
NewRecord(lot_id, occupied_spaces, area_id, timestamp) ==
    [timestamp |-> timestamp, occupied_spaces |-> occupied_spaces,
     lot_id |-> lot_id, area_id |-> area_id,
     day_of_week |-> DayOfWeek(timestamp), hour |-> HourOf(timestamp),
     minute |-> MinuteOf(timestamp)]

AddOccupancyRecord(recs, lot_id, occupied_spaces, area_id, timestamp) ==
    Append(recs, NewRecord(lot_id, occupied_spaces, area_id, timestamp))

\* The row get_historical_data builds from a record
HistRow(ls, r) ==
    [timestamp |-> r.timestamp, occupancy |-> r.occupied_spaces,
     total_spaces |-> LotOf(ls, r.lot_id).total_spaces,
     day_of_week |-> r.day_of_week, hour |-> r.hour, minute |-> r.minute,
     lot_id |-> r.lot_id, area_id |-> r.area_id]

\* ORDER BY timestamp: the database leaves the order of equal timestamps
\* open; rev chooses between insertion order and its reverse among equals.
Reverse(s) == [i \in 1..Len(s) |-> s[Len(s) + 1 - i]]

RECURSIVE OrderedGroups(_, _, _)
OrderedGroups(s, keys, rev) ==
    IF keys = {} THEN <<>>
    ELSE LET k == CHOOSE x \in keys : \A y \in keys : x <= y
             group == SelectSeq(s, LAMBDA r : r.timestamp = k)
         IN  (IF rev THEN Reverse(group) ELSE group) \o OrderedGroups(s, keys \ {k}, rev)

\* variant that orders by timestamp descending
OrderByTimestamp_Desc(s, rev) ==
    Reverse(OrderedGroups(s, {s[i].timestamp : i \in DOMAIN s}, rev))

OrderByTimestamp(s, rev) == OrderedGroups(s, {s[i].timestamp : i \in DOMAIN s}, rev)

\* variant of the window test that drops a record dated exactly at the cutoff
InWindow_Strict(timestamp, t, days) == timestamp > t - days * DaySeconds

\* OccupancyRecord.timestamp >= datetime.now() - timedelta(days=days)
InWindow(timestamp, t, days) == timestamp >= t - days * DaySeconds

GetHistoricalData(ls, recs, t, days, rev) ==
    LET found == OrderByTimestamp(SelectSeq(recs, LAMBDA r : InWindow(r.timestamp, t, days)), rev)
    IN  [i \in 1..Len(found) |-> HistRow(ls, found[i])]

\* The areas in the order get_current_occupancy visits them: lot by lot
RECURSIVE AreasByLot(_, _)
AreasByLot(ls, as) ==
    IF ls = <<>> THEN <<>>
    ELSE GetParkingAreas(as, Head(ls).id) \o AreasByLot(Tail(ls), as)

\* variant that also takes a record dated exactly 15 minutes before t
IsRecent_Inclusive(r, area_id, t) ==
    r.area_id = area_id /\ r.timestamp >= t - RECENT_MINUTES * MinuteSeconds

\* OccupancyRecord.area_id == area.id, OccupancyRecord.timestamp > recent_time
IsRecent(r, area_id, t) ==
    r.area_id = area_id /\ r.timestamp > t - RECENT_MINUTES * MinuteSeconds

\* occupied count of one area: its most recent record, or a simulated one
AreaOccupied(recs, a, t, draw) ==
    LET recent == {i \in DOMAIN recs : IsRecent(recs[i], a.id, t)}
    IN  IF recent # {}
        THEN recs[CHOOSE i \in recent :
                    \A j \in recent : recs[j].timestamp <= recs[i].timestamp].occupied_spaces
        ELSE (a.total_spaces * DrawAt(draw, a.id)) \div 100

Pct(num, den) == IF den > 0 THEN [num |-> num * 100, den |-> den] ELSE [num |-> 0, den |-> 1]

AreaEntry(recs, a, t, draw) ==
    LET occupied == AreaOccupied(recs, a, t, draw)
    IN  [total |-> a.total_spaces, occupied |-> occupied,
         available |-> a.total_spaces - occupied,
         occupancy_pct |-> Pct(occupied, a.total_spaces)]

\* variant that answers with the capacity of the simulated lot
EmptySnapshot_Simulated(t) ==
    [timestamp |-> t, total_spaces |-> 200, total_occupied |-> 100, total_available |-> 100,
     occupancy_pct |-> Pct(100, 200), areas |-> [n \in {} |-> 0]]

\* if not lots: the empty snapshot
EmptySnapshot(t) ==
    [timestamp |-> t, total_spaces |-> 0, total_occupied |-> 0, total_available |-> 0,
     occupancy_pct |-> Pct(0, 0), areas |-> [n \in {} |-> 0]]

GetCurrentOccupancy(ls, as, recs, t, draw) ==
    IF ls = <<>> THEN EmptySnapshot(t)
    ELSE LET visited == AreasByLot(ls, as)
             names == {visited[i].name : i \in DOMAIN visited}
             total_spaces == SumSeq([i \in DOMAIN ls |-> ls[i].total_spaces])
             total_occupied ==
                 SumSeq([i \in DOMAIN visited |-> AreaOccupied(recs, visited[i], t, draw)])
             \* areas_data[area.name] = ...: a later area of the same name overwrites
             lastOf(n) == CHOOSE i \in DOMAIN visited :
                              /\ visited[i].name = n
                              /\ \A j \in DOMAIN visited : visited[j].name = n => j <= i
         IN  [timestamp |-> t, total_spaces |-> total_spaces,
              total_occupied |-> total_occupied,
              total_available |-> total_spaces - total_occupied,
              occupancy_pct |-> Pct(total_occupied, total_spaces),
              areas |-> [n \in names |-> AreaEntry(recs, visited[lastOf(n)], t, draw)]]

-----------------------------------------------------------------------------
(* data_generator.py: the time grid of generate_parking_data *)

\* num_points = int(total_minutes / interval_minutes) + 1, interval_minutes # 0
NumPoints(start_time, end_time, interval_minutes) ==
    TruncDiv(end_time - start_time, MinuteSeconds * interval_minutes) + 1

\* time_points: [start_time + i * interval for i in range(num_points)]
TimePoints(start_time, end_time, interval_minutes) ==
    LET n == NumPoints(start_time, end_time, interval_minutes)
    IN  [i \in 1..Max2(n, 0) |-> start_time + (i - 1) * interval_minutes * MinuteSeconds]

\* The bounded adjustment of each time bucket, in per-mille: [lo, hi) is the
\* range of the draw and sign its direction; a bucket without one draws nothing
NoAdjustment == [lo |-> 0, hi |-> 1, sign |-> 0]

BucketAdjustment(day_of_week, hour) ==
    IF day_of_week < 5
    THEN IF 8 <= hour /\ hour < 10 THEN [lo |-> 300, hi |-> 500, sign |-> 1]
         ELSE IF 12 <= hour /\ hour < 14 THEN [lo |-> 150, hi |-> 300, sign |-> 1]
         ELSE IF 16 <= hour /\ hour < 18 THEN [lo |-> 250, hi |-> 450, sign |-> 1]
         ELSE IF hour >= 22 \/ hour < 6 THEN [lo |-> 150, hi |-> 250, sign |-> -1]
         ELSE NoAdjustment
    ELSE IF 11 <= hour /\ hour < 15 THEN [lo |-> 300, hi |-> 500, sign |-> 1]
         ELSE IF 19 <= hour /\ hour < 21 THEN [lo |-> 200, hi |-> 400, sign |-> 1]
         ELSE IF hour >= 23 \/ hour < 8 THEN [lo |-> 200, hi |-> 300, sign |-> -1]
         ELSE NoAdjustment

\* the outcomes enumerated for a draw from [lo, hi): its two ends
DrawEnds(lo, hi) == {lo, hi - 1}

BaseDraws == DrawEnds(300, 400)       \* np.random.uniform(0.3, 0.4)

AdjustmentDraws(day_of_week, hour) ==
    LET b == BucketAdjustment(day_of_week, hour) IN DrawEnds(b.lo, b.hi)

\* variant of the clamp with no lower bound above zero
ClampPct_NoFloor(pct) == Max2(0, Min2(950, pct))

\* occupancy_pct = max(0.05, min(0.95, base_occupancy_pct)), in per-mille
ClampPct(pct) == Max2(50, Min2(950, pct))

\* occupancy = int(occupancy_pct * total_spaces)
OccupancyOf(pct, total_spaces) == TruncDiv(pct * total_spaces, 1000)

\* no call of the generator made yet
GenIdle == [phase |-> "idle"]

\* one row of the generated data
GenRow(t, total_spaces, base, adj) ==
    LET b == BucketAdjustment(DayOfWeek(t), HourOf(t))
        pct == ClampPct(base + b.sign * adj)
    IN  [timestamp |-> t, occupancy |-> OccupancyOf(pct, total_spaces),
         total_spaces |-> total_spaces, day_of_week |-> DayOfWeek(t),
         hour |-> HourOf(t), minute |-> MinuteOf(t)]

-----------------------------------------------------------------------------
(* database.py: seed_database *)

\* the interval of the seeded grid, in minutes (the code's is 15)
SeedIntervalMinutes == (SEED_DAYS * 24 * 60) \div SeedSteps

\* base_rate by weekday and hour, in percent
SeedBaseRate(day_of_week, hour) ==
    IF 0 <= day_of_week /\ day_of_week <= 4
    THEN IF 8 <= hour /\ hour <= 15 THEN 75
         ELSE IF 16 <= hour /\ hour <= 18 THEN 60
         ELSE 40
    ELSE 25

\* occupancy_rate = min(0.95, max(0.1, base_rate + variation)), in percent
SeedOccupancyRate(day_of_week, hour, variation) ==
    Min2(95, Max2(10, SeedBaseRate(day_of_week, hour) + variation))

\* variant in which the last area takes its proportional share as well
RECURSIVE SeedAreaRecords_Proportional(_, _, _, _, _, _)
SeedAreaRecords_Proportional(lot_areas, i, lot_occupancy, remaining, total_capacity, t) ==
    IF i > Len(lot_areas) THEN <<>>
    ELSE LET area == lot_areas[i]
             share == (lot_occupancy * area.total_spaces) \div total_capacity
         IN  <<NewRecord(area.lot_id, Min2(share, area.total_spaces), area.id, t)>>
             \o SeedAreaRecords_Proportional(lot_areas, i + 1, lot_occupancy,
                                             remaining - share, total_capacity, t)

\* the area records of one lot at one timestamp: proportional shares, the
\* last area taking what remains, each capped at the area's capacity
RECURSIVE SeedAreaRecords(_, _, _, _, _, _)
SeedAreaRecords(lot_areas, i, lot_occupancy, remaining, total_capacity, t) ==
    IF i > Len(lot_areas) THEN <<>>
    ELSE LET area == lot_areas[i]
             share == IF i = Len(lot_areas) THEN remaining
                      ELSE (lot_occupancy * area.total_spaces) \div total_capacity
             left == IF i = Len(lot_areas) THEN remaining ELSE remaining - share
         IN  <<NewRecord(area.lot_id, Min2(share, area.total_spaces), area.id, t)>>
             \o SeedAreaRecords(lot_areas, i + 1, lot_occupancy, left, total_capacity, t)

\* the records of one lot at one timestamp: the lot record, then its areas
SeedLotRecordsAt(lot, as, t, lot_occupancy) ==
    LET lot_areas == GetParkingAreas(as, lot.id)
        total_capacity == SumSeq([i \in DOMAIN lot_areas |-> lot_areas[i].total_spaces])
    IN  <<NewRecord(lot.id, lot_occupancy, NoArea, t)>>
        \o SeedAreaRecords(lot_areas, 1, lot_occupancy, lot_occupancy, total_capacity, t)

\* lot_occupancy = int(lot.total_spaces * occupancy_rate)
SeedLotRecords(lot, as, t, variation) ==
    SeedLotRecordsAt(lot, as, t,
        (lot.total_spaces * SeedOccupancyRate(DayOfWeek(t), HourOf(t), variation)) \div 100)

\* for _, row in historical_data.iterrows(): for lot in lots: ...
RECURSIVE SeedRecords(_, _, _, _, _, _)
SeedRecords(ls, as, points, p, l, draw) ==
    IF p > Len(points) THEN <<>>
    ELSE IF l > Len(ls) THEN SeedRecords(ls, as, points, p + 1, 1, draw)
    ELSE SeedLotRecords(ls[l], as, points[p], DrawAt(draw, p + l))
         \o SeedRecords(ls, as, points, p, l + 1, draw)

\* seed_database at time t: nothing when a lot exists, else the catalog and
\* the records of the past SEED_DAYS days
SeedDatabase(ls, as, recs, t, draw) ==
    IF Len(ls) > 0 THEN [lots |-> ls, areas |-> as, records |-> recs]
    ELSE [lots |-> SeedLots, areas |-> SeedAreas,
          records |-> recs \o SeedRecords(SeedLots, SeedAreas,
                              TimePoints(t - SEED_DAYS * DaySeconds, t, SeedIntervalMinutes),
                              1, 1, draw)]

-----------------------------------------------------------------------------
(* prediction_model.py: train_prediction_model *)

NoModel == [fitted |-> FALSE, trained_on |-> <<>>]

\* variant in which fitting accepts any series
TrainRejects_Never(series) == FALSE

\* model.fit(X, y): the estimator refuses an input of zero samples with a
\* ValueError; otherwise the fitted pipeline, known here by what it was fitted on
TrainRejects(series) == Len(series) = 0

TrainPredictionModel(series) == [fitted |-> TRUE, trained_on |-> series]

-----------------------------------------------------------------------------
(* app.py: update_data *)

\* variants of the threshold test: strict, and in the wrong unit
RefreshDue_Strict(elapsed) == elapsed > REFRESH_SECONDS

RefreshDue_Minutes(elapsed) == elapsed >= REFRESH_SECONDS \div MinuteSeconds

RefreshDue_Always(elapsed) == TRUE

\* if time_diff.total_seconds() >= 900
RefreshDue(elapsed) == elapsed >= REFRESH_SECONDS

\* the records update_data adds for the main lot: the lot record, then one
\* record per area of the main lot that the snapshot has an entry for (by name)
RECURSIVE RefreshAreaRecords(_, _, _, _)
RefreshAreaRecords(main_areas, i, rtd, t) ==
    IF i > Len(main_areas) THEN <<>>
    ELSE LET area == main_areas[i]
         IN  (IF area.name \in DOMAIN rtd.areas
              THEN <<NewRecord(area.lot_id, rtd.areas[area.name].occupied, area.id, t)>>
              ELSE <<>>)
             \o RefreshAreaRecords(main_areas, i + 1, rtd, t)

RefreshRecords(ls, as, rtd, t) ==
    IF ls = <<>> THEN <<>>
    ELSE LET main_lot == ls[1]
         IN  <<NewRecord(main_lot.id, rtd.total_occupied, NoArea, t)>>
             \o RefreshAreaRecords(GetParkingAreas(as, main_lot.id), 1, rtd, t)

\* The series the refresh trains on: fetched before the new records are added
RefreshSeries(ls, recs, new, t, rev) == GetHistoricalData(ls, recs, t, HISTORY_DAYS, rev)

NoRun == [seeded |-> FALSE, init |-> FALSE, trigger |-> FALSE, elapsed |-> 0,
          refreshed |-> FALSE, retrained |-> FALSE, error |-> "none",
          appended |-> 0]

\* update_data() at time t on session sess and the store; returns the session,
\* the store's records and what the call did
UpdateData(sess, ls, as, recs, t, sdraw, rev) ==
    LET rtd == GetCurrentOccupancy(ls, as, recs, t, sdraw)
        elapsed == t - sess.last_update
    IN  IF ~RefreshDue(elapsed)
        THEN [sess |-> [sess EXCEPT !.real_time_data = rtd],
              records |-> recs,
              obs |-> [NoRun EXCEPT !.trigger = TRUE, !.elapsed = elapsed]]
        ELSE LET new == RefreshRecords(ls, as, rtd, t)
                 series == RefreshSeries(ls, recs, new, t, rev)
                 fails == TrainRejects(series)
             IN  [sess |-> [sess EXCEPT
                              !.real_time_data = rtd,
                              !.historical_data = series,
                              !.last_update = t,
                              !.model = IF fails THEN @ ELSE TrainPredictionModel(series),
                              !.keys = IF fails THEN @ ELSE @ \cup {"model"}],
                  records |-> recs \o new,
                  obs |-> [NoRun EXCEPT !.trigger = TRUE, !.elapsed = elapsed,
                                        !.refreshed = TRUE, !.retrained = ~fails,
                                        !.error = IF fails THEN "ValueError" ELSE "none",
                                        !.appended = Len(new)]]

-----------------------------------------------------------------------------
(* app.py: one run of the script *)

\* lines 65-77: the session state is initialised key by key; training that
\* raises ends the run with historical_data set and nothing after it
SessionInit(sess, ls, as, recs, t, sdraw, rev) ==
    LET needHist == "historical_data" \notin sess.keys
        series == GetHistoricalData(ls, recs, t, HISTORY_DAYS, rev)
        fails == needHist /\ TrainRejects(series)
        s1 == IF ~needHist THEN sess
              ELSE IF fails
              THEN [sess EXCEPT !.historical_data = series,
                                !.keys = @ \cup {"historical_data"}]
              ELSE [sess EXCEPT !.historical_data = series,
                                !.model = TrainPredictionModel(series),
                                !.keys = @ \cup {"historical_data", "model"}]
        s2 == IF "last_update" \in s1.keys THEN s1
              ELSE [s1 EXCEPT !.last_update = t, !.keys = @ \cup {"last_update"}]
        s3 == IF "real_time_data" \in s2.keys THEN s2
              ELSE [s2 EXCEPT !.real_time_data = GetCurrentOccupancy(ls, as, recs, t, sdraw),
                              !.keys = @ \cup {"real_time_data"}]
    IN  [sess |-> IF fails THEN s1 ELSE s3, raised |-> fails, init |-> needHist]

Session == [keys |-> ss_keys, historical_data |-> historical_data, model |-> model,
            last_update |-> last_update, real_time_data |-> real_time_data]

\* After db.seed_database(): the session initialisation, then the page; the
\* pages Dashboard, Prediction and Historical Data call update_data
PageRun(db, seeded, updates, t, sdraw, rev) ==
    LET ini == SessionInit(Session, db.lots, db.areas, db.records, t, sdraw, rev)
    IN  IF ini.raised
        THEN [db |-> db, sess |-> ini.sess,
              obs |-> [NoRun EXCEPT !.seeded = seeded, !.init = TRUE,
                                    !.error = "ValueError"]]
        ELSE IF ~updates
        THEN [db |-> db, sess |-> ini.sess,
              obs |-> [NoRun EXCEPT !.seeded = seeded, !.init = ini.init]]
        ELSE LET u == UpdateData(ini.sess, db.lots, db.areas, db.records, t, sdraw, rev)
             IN  [db |-> [db EXCEPT !.records = u.records], sess |-> u.sess,
                  obs |-> [u.obs EXCEPT !.seeded = seeded, !.init = ini.init]]

Install(r) ==
    /\ lots' = r.db.lots
    /\ areas' = r.db.areas
    /\ records' = r.db.records
    /\ ss_keys' = r.sess.keys
    /\ historical_data' = r.sess.historical_data
    /\ model' = r.sess.model
    /\ last_update' = r.sess.last_update
    /\ real_time_data' = r.sess.real_time_data
    /\ run' = IF r.obs = NoRun THEN run ELSE r.obs

\* The draws a run makes: a draw the run does not make is not enumerated.
SeedDraws == IF lots = <<>> THEN VariationDraws ELSE {[u |-> 0, v |-> 0]}

SnapshotSimulates(db, t) ==
    \E i \in DOMAIN db.areas :
        \A j \in DOMAIN db.records : ~IsRecent(db.records[j], db.areas[i].id, t)

\* the run takes a snapshot: at session initialisation or in update_data
TakesSnapshot(updates) == updates \/ "real_time_data" \notin ss_keys

SnapshotDrawsOf(db, updates, t) ==
    IF TakesSnapshot(updates) /\ SnapshotSimulates(db, t)
    THEN SnapshotDraws ELSE {[u |-> 0, v |-> 0]}

\* the run queries the historical records: at session initialisation or in a refresh
Fetches(updates, t) ==
    \/ "historical_data" \notin ss_keys
    \/ updates /\ "last_update" \in ss_keys /\ RefreshDue(t - last_update)

FetchOrders(updates, t) == IF Fetches(updates, t) THEN BOOLEAN ELSE {FALSE}

\* One run of the script at the current time
RunPage(updates) ==
    \E vdraw \in SeedDraws :
      \E db \in {SeedDatabase(lots, areas, records, now, vdraw)} :
        \E sdraw \in SnapshotDrawsOf(db, updates, now), rev \in FetchOrders(updates, now) :
          \E r \in {PageRun(db, lots = <<>>, updates, now, sdraw, rev)} :
            /\ Install(r)
            /\ triggers' = IF r.obs.trigger
                           THEN Append(triggers, [t |-> now, refreshed |-> r.obs.refreshed,
                                                  retrained |-> r.obs.retrained])
                           ELSE triggers

\* A rerun on a page that calls update_data
RunUpdatingPage ==
    /\ Len(triggers) < MaxTriggers
    /\ RunPage(TRUE)
    /\ UNCHANGED <<now, ticks, gen>>

\* A rerun on a page that does not (Management, Student Resources, About)
RunStaticPage ==
    /\ RunPage(FALSE)
    /\ UNCHANGED <<now, ticks, gen>>

\* The clock advances
Deltas == {1, 899, HISTORY_DAYS * DaySeconds}

Tick ==
    /\ ticks < MaxTicks
    /\ \E d \in Deltas : now' = now + d
    /\ ticks' = ticks + 1
    /\ UNCHANGED <<storeVars, sessionVars, run, triggers, gen>>

\* A new browser session: st.session_state starts empty
NewSession ==
    /\ ss_keys # {}
    /\ ss_keys' = {}
    /\ historical_data' = <<>>
    /\ model' = NoModel
    /\ last_update' = 0
    /\ real_time_data' = EmptySnapshot(0)
    /\ run' = NoRun
    /\ triggers' = <<>>
    /\ UNCHANGED <<now, storeVars, ticks, gen>>

\* The first run starts on a Wednesday at 09:00, in the second week
StartTime == 7 * DaySeconds + 2 * DaySeconds + 9 * HourSeconds

Init ==
    /\ now = StartTime
    /\ lots = <<>>
    /\ areas = <<>>
    /\ records = <<>>
    /\ ss_keys = {}
    /\ historical_data = <<>>
    /\ model = NoModel
    /\ last_update = 0
    /\ real_time_data = EmptySnapshot(0)
    /\ run = NoRun
    /\ triggers = <<>>
    /\ ticks = 0
    /\ gen = GenIdle

Next == RunUpdatingPage \/ RunStaticPage \/ Tick \/ NewSession

Spec == Init /\ [][Next]_vars

-----------------------------------------------------------------------------
(* data_generator.py: one call of generate_parking_data, row by row *)

\* The calls enumerated: a weekday morning and a weekend night, spans and
\* intervals of either sign, capacities that 20 divides and does not divide
GenStarts == {StartTime, 5 * DaySeconds + 23 * HourSeconds + 30 * MinuteSeconds}
GenSpanMinutes == {-30, 0, 20, 45}
GenIntervals == {-15, 0, 15}
GenCapacities == {0, 30, 200}

\* generate_parking_data(start_time, end_time, interval_minutes, total_spaces):
\* the time points are computed first; a zero interval raises ZeroDivisionError
GenCall ==
    /\ gen.phase = "idle"
    /\ \E start_time \in GenStarts, span \in GenSpanMinutes,
          interval_minutes \in GenIntervals, total_spaces \in GenCapacities :
         LET end_time == start_time + span * MinuteSeconds
             call == [start_time |-> start_time, end_time |-> end_time,
                      interval_minutes |-> interval_minutes, total_spaces |-> total_spaces]
         IN  gen' = IF interval_minutes = 0
                    THEN [phase |-> "raised", error |-> "ZeroDivisionError", call |-> call]
                    ELSE [phase |-> "rows", call |-> call, data |-> <<>>,
                          time_points |-> TimePoints(start_time, end_time, interval_minutes)]
    /\ UNCHANGED <<now, storeVars, sessionVars, run, triggers, ticks>>

\* for t in time_points: one row, from the draws of that iteration
GenPoint ==
    /\ gen.phase = "rows"
    /\ Len(gen.data) < Len(gen.time_points)
    /\ LET t == gen.time_points[Len(gen.data) + 1]
       IN  \E base \in BaseDraws, adj \in AdjustmentDraws(DayOfWeek(t), HourOf(t)) :
             gen' = [gen EXCEPT !.data = Append(@, GenRow(t, gen.call.total_spaces, base, adj))]
    /\ UNCHANGED <<now, storeVars, sessionVars, run, triggers, ticks>>

\* return pd.DataFrame(data)
GenReturn ==
    /\ gen.phase = "rows"
    /\ Len(gen.data) = Len(gen.time_points)
    /\ gen' = [phase |-> "returned", call |-> gen.call, data |-> gen.data]
    /\ UNCHANGED <<now, storeVars, sessionVars, run, triggers, ticks>>

NextGen == GenCall \/ GenPoint \/ GenReturn

SpecGen == Init /\ [][NextGen]_vars

-----------------------------------------------------------------------------
(* Claims about the retraining scheduler, checked under Spec *)

LastTrigger == triggers[Len(triggers)]

\* this step does not end the session (a new session starts with no keys)
SessionStep == ss_keys \subseteq ss_keys'

\* this step is an update_data call of an initialised session
TriggerStep == Len(triggers') > Len(triggers) /\ "last_update" \in ss_keys

\* the capacity a record is recorded against: its area's, or else its lot's
CapacityOf(lot_id, area_id) ==
    IF area_id = NoArea
    THEN LotOf(lots, lot_id).total_spaces
    ELSE (CHOOSE a \in Range(areas) : a.id = area_id).total_spaces

\* the records the last refresh added, as rows of the series
AppendedRows ==
    {HistRow(lots, records[i]) : i \in (Len(records) - run.appended + 1)..Len(records)}

\* C1: an update_data call refreshes (records the call's time as the refresh
\* time and adds the new records) exactly when at least 900 seconds have
\* passed since the recorded refresh time; otherwise it does neither.
C1_RefreshIffThreshold ==
    [][TriggerStep =>
         IF now - last_update >= 900
         THEN /\ last_update' = now
              /\ Len(records') > Len(records)
              /\ run'.refreshed
         ELSE /\ last_update' = last_update
              /\ records' = records
              /\ ~run'.refreshed]_vars

\* a call 899 seconds after the refresh time did not refresh, and a call one
\* second later, at exactly 900 seconds, did
C1_Witness ==
    /\ Len(triggers) = 2
    /\ ~triggers[1].refreshed
    /\ triggers[2].refreshed
    /\ triggers[2].t = triggers[1].t + 1
    /\ run.elapsed = 900
    /\ last_update = triggers[2].t

Retrainings(i) == IF triggers[i].retrained THEN 1 ELSE 0

CloseTriggers ==
    {p \in (DOMAIN triggers) \X (DOMAIN triggers) :
        p[1] < p[2] /\ triggers[p[2]].t - triggers[p[1]].t < 900}

\* C2 as stated: any two update_data calls of a session less than 900 seconds
\* apart result in exactly one retraining.
C2_ExactlyOneRetraining ==
    \A p \in CloseTriggers : Retrainings(p[1]) + Retrainings(p[2]) = 1

\* C2 amended: any two update_data calls of a session less than 900 seconds
\* apart result in at most one retraining.
C2_AtMostOneRetraining ==
    \A p \in CloseTriggers : Retrainings(p[1]) + Retrainings(p[2]) <= 1

\* two calls one second apart, the first of which retrained
C2_Witness ==
    \E p \in CloseTriggers :
        /\ triggers[p[1]].retrained
        /\ ~triggers[p[2]].retrained
        /\ triggers[p[2]].t > triggers[p[1]].t

\* C3: the model a refresh installs was trained on a series that holds every
\* observation the refresh added, and a refresh whose training raised has not
\* recorded its time as the refresh time.
C3_TrainedOnAppended ==
    /\ (run.refreshed /\ run.retrained) => AppendedRows \subseteq Range(model.trained_on)
    /\ (run.refreshed /\ ~run.retrained) => last_update # LastTrigger.t

\* C4: every record of the store and every observation of the session series
\* has 0 <= occupied <= the capacity of the lot or area it is recorded against.
C4_OccupiedWithinCapacity ==
    /\ \A i \in DOMAIN records :
         /\ 0 <= records[i].occupied_spaces
         /\ records[i].occupied_spaces <= CapacityOf(records[i].lot_id, records[i].area_id)
    /\ \A i \in DOMAIN historical_data :
         /\ 0 <= historical_data[i].occupancy
         /\ historical_data[i].occupancy
              <= CapacityOf(historical_data[i].lot_id, historical_data[i].area_id)

\* position of an observation in a series that holds it
PositionIn(series, row) == CHOOSE k \in DOMAIN series : series[k] = row

\* C5 as stated: whatever was in the session series before a step of the
\* session is in it after the step, in the same relative order.
C5_AppendOnly ==
    [][("historical_data" \in ss_keys /\ SessionStep /\ historical_data' # historical_data) =>
         /\ Range(historical_data) \subseteq Range(historical_data')
         /\ \A i \in 1..(Len(historical_data) - 1) :
              PositionIn(historical_data', historical_data[i])
                < PositionIn(historical_data', historical_data[i + 1])]_vars

\* C5 amended: an observation of the session series dated within the 7 days
\* before a refresh is still in the series after the refresh, and the series
\* after the refresh is in timestamp order (so observations with different
\* timestamps keep their relative order).
C5_WindowKept ==
    [][("historical_data" \in ss_keys /\ SessionStep /\ historical_data' # historical_data) =>
         /\ \A i \in DOMAIN historical_data :
              historical_data[i].timestamp >= now - 7 * DaySeconds
                => historical_data[i] \in Range(historical_data')
         /\ \A i \in 1..(Len(historical_data') - 1) :
              historical_data'[i].timestamp <= historical_data'[i + 1].timestamp]_vars

\* a refresh exactly 7 days after the newest seeded observation kept it and
\* dropped the older ones
C5_Witness ==
    /\ run.refreshed
    /\ run.elapsed = 7 * DaySeconds
    /\ historical_data # <<>>
    /\ \A i \in DOMAIN historical_data : historical_data[i].timestamp = last_update - 7 * DaySeconds
    /\ \E i \in DOMAIN records : records[i].timestamp < last_update - 7 * DaySeconds

\* C7: a refresh whose training raised leaves the session series, the refresh
\* time and the model as they were before it.
C7_RefreshAtomic ==
    [][(TriggerStep /\ run'.refreshed /\ run'.error # "none") =>
         /\ historical_data' = historical_data
         /\ last_update' = last_update
         /\ model' = model]_vars

\* C8: while fewer than 900 seconds have passed since the recorded refresh
\* time no step of the session changes the series, the refresh time or the model; an
\* update_data call then replaces the snapshot alone.
C8_OnlyRefreshMutates ==
    [][("last_update" \in ss_keys /\ SessionStep /\ now - last_update < 900) =>
         /\ historical_data' = historical_data
         /\ last_update' = last_update
         /\ model' = model
         /\ ("model" \in ss_keys') <=> ("model" \in ss_keys)
         /\ TriggerStep => real_time_data'.timestamp = now]_vars

\* a call 899 seconds after the refresh time replaced the snapshot and nothing else
C8_Witness ==
    /\ run.trigger
    /\ ~run.refreshed
    /\ run.elapsed = 899
    /\ real_time_data.timestamp = last_update + 899
    /\ model.fitted
    /\ model.trained_on = historical_data

C9_WitnessAtStart ==
    /\ run.init
    /\ run.error = "ValueError"
    /\ lots # <<>>
    /\ "model" \notin ss_keys

-----------------------------------------------------------------------------
(* Claims about the generator, checked under SpecGen *)

GenRows == IF gen.phase \in {"rows", "returned"} THEN gen.data ELSE <<>>

\* C10 as stated: every generated observation has
\* 0.05 * capacity <= occupied <= 0.95 * capacity.
C10_ClampInvariant ==
    \A i \in DOMAIN GenRows :
        /\ 50 * GenRows[i].total_spaces <= 1000 * GenRows[i].occupancy
        /\ 1000 * GenRows[i].occupancy <= 950 * GenRows[i].total_spaces

\* C10 amended: every generated observation has
\* floor(0.05 * capacity) <= occupied <= 0.95 * capacity, hence
\* 0 <= occupied <= capacity; occupied is the clamped ratio times the
\* capacity, truncated.
C10_ClampTruncated ==
    \A i \in DOMAIN GenRows :
        /\ (50 * GenRows[i].total_spaces) \div 1000 <= GenRows[i].occupancy
        /\ 1000 * GenRows[i].occupancy <= 950 * GenRows[i].total_spaces
        /\ 0 <= GenRows[i].occupancy
        /\ GenRows[i].occupancy <= GenRows[i].total_spaces

\* a returned series for a capacity of 30 holds an observation at the lower
\* clamp, truncated to 1, and one above it
C10_Witness ==
    /\ gen.phase = "returned"
    /\ gen.call.total_spaces = 30
    /\ \E i \in DOMAIN gen.data : gen.data[i].occupancy = 1
    /\ \E i \in DOMAIN gen.data : gen.data[i].occupancy > 1

\* the call of the generator is one the range check of the interface refuses
GenInvalidRange ==
    /\ gen.phase # "idle"
    /\ (gen.call.start_time >= gen.call.end_time \/ gen.call.interval_minutes <= 0)

\* C11: a call with start >= end or interval <= 0 is refused with an
\* InvalidRange error before anything is computed: it produces no series, be it
\* empty or of one point, and no arithmetic error.
C11_InvalidRangeRejected ==
    GenInvalidRange => (gen.phase = "raised" /\ gen.error = "InvalidRange")

-----------------------------------------------------------------------------
(* data_generator.py: get_current_occupancy, the simulated snapshot *)

\* areas = {...}: the four areas of the simulated lot, in insertion order
SimAreas ==
    << [name |-> "Area A - Main", total |-> 80],
       [name |-> "Area B - North", total |-> 60],
       [name |-> "Area C - South", total |-> 40],
       [name |-> "Area D - VIP", total |-> 20] >>

\* the range [lo, hi) of the base ratio of each time bucket, in per-mille
SimBaseRange(day_of_week, hour) ==
    IF day_of_week < 5
    THEN IF 8 <= hour /\ hour < 10 THEN [lo |-> 700, hi |-> 900]
         ELSE IF 12 <= hour /\ hour < 14 THEN [lo |-> 500, hi |-> 700]
         ELSE IF 16 <= hour /\ hour < 18 THEN [lo |-> 650, hi |-> 850]
         ELSE IF hour >= 22 \/ hour < 6 THEN [lo |-> 100, hi |-> 250]
         ELSE [lo |-> 400, hi |-> 600]
    ELSE IF 11 <= hour /\ hour < 15 THEN [lo |-> 600, hi |-> 800]
         ELSE IF 19 <= hour /\ hour < 21 THEN [lo |-> 500, hi |-> 700]
         ELSE IF hour >= 23 \/ hour < 8 THEN [lo |-> 100, hi |-> 200]
         ELSE [lo |-> 300, hi |-> 500]

SimBaseDraws(day_of_week, hour) ==
    LET b == SimBaseRange(day_of_week, hour) IN DrawEnds(b.lo, b.hi)

\* area_modifier = np.random.uniform(0.8, 1.2), in per-mille
SimModifierDraws == DrawEnds(800, 1200)

\* Ratios of an area are kept in units of 10^-7, in which the product of two
\* per-mille draws and the factor 0.7 are exact
RatioUnit == 10000000

\* variant of the clamp whose upper bound is 1
SimClamp_ToOne(ratio) == Max2(RatioUnit \div 20, Min2(RatioUnit, ratio))

\* area_occupancy_pct = max(0.05, min(0.95, area_occupancy_pct))
SimClamp(ratio) == Max2(RatioUnit \div 20, Min2((RatioUnit \div 20) * 19, ratio))

\* the final ratio of an area: base times modifier, clamped, and then, for
\* the area named "Area D - VIP", multiplied by 0.7
SimAreaRatio(name, base, modifier) ==
    LET clamped == SimClamp(base * modifier * 10)
    IN  IF name = "Area D - VIP" THEN (clamped * 7) \div 10 ELSE clamped

\* occupied = int(area_occupancy_pct * area_data["total"]) and the entry of
\* the area in the result
SimAreaEntry(area, base, modifier) ==
    LET ratio == SimAreaRatio(area.name, base, modifier)
        occupied == TruncDiv(ratio * area.total, RatioUnit)
    IN  [name |-> area.name, total |-> area.total, occupied |-> occupied,
         available |-> area.total - occupied, ratio |-> ratio]

\* the weekday morning, a weekday night, a weekend noon and a weekend night
SimTimes ==
    {StartTime, StartTime + 14 * HourSeconds,
     5 * DaySeconds + 12 * HourSeconds, 6 * DaySeconds + 2 * HourSeconds}

SimCapacities == {0, 200}

\* get_current_occupancy(total_spaces): the time is read and the base ratio drawn
SimCall ==
    /\ gen.phase = "idle"
    /\ \E t \in SimTimes, total_spaces \in SimCapacities :
         \E base \in SimBaseDraws(DayOfWeek(t), HourOf(t)) :
            gen' = [phase |-> "areas", timestamp |-> t, total_spaces |-> total_spaces,
                    base |-> base, areas |-> <<>>]
    /\ UNCHANGED <<now, storeVars, sessionVars, run, triggers, ticks>>

\* for area_name, area_data in areas.items(): one area, with its own modifier
SimArea ==
    /\ gen.phase = "areas"
    /\ Len(gen.areas) < Len(SimAreas)
    /\ \E modifier \in SimModifierDraws :
         gen' = [gen EXCEPT !.areas =
                    Append(@, SimAreaEntry(SimAreas[Len(gen.areas) + 1], gen.base, modifier))]
    /\ UNCHANGED <<now, storeVars, sessionVars, run, triggers, ticks>>

\* the returned dictionary; its occupancy_pct divides by total_spaces
SimReturn ==
    /\ gen.phase = "areas"
    /\ Len(gen.areas) = Len(SimAreas)
    /\ LET total_occupied == SumSeq([i \in DOMAIN gen.areas |-> gen.areas[i].occupied])
       IN  gen' = IF gen.total_spaces = 0
                  THEN [phase |-> "sim_raised", error |-> "ZeroDivisionError",
                        total_spaces |-> gen.total_spaces, areas |-> gen.areas]
                  ELSE [phase |-> "sim_returned", timestamp |-> gen.timestamp,
                        total_spaces |-> gen.total_spaces,
                        total_occupied |-> total_occupied,
                        total_available |-> gen.total_spaces - total_occupied,
                        occupancy_pct |-> Pct(total_occupied, gen.total_spaces),
                        areas |-> gen.areas]
    /\ UNCHANGED <<now, storeVars, sessionVars, run, triggers, ticks>>

NextSim == SimCall \/ SimArea \/ SimReturn

SpecSim == Init /\ [][NextSim]_vars

-----------------------------------------------------------------------------
(* Claims about the simulated snapshot, checked under SpecSim *)

\* C12: a snapshot asked for with capacity 0 returns total_occupied = 0,
\* total_available = 0, occupancy_pct = 0 and no areas, and raises nothing.
C12_ZeroCapacitySnapshot ==
    (gen.phase \in {"sim_raised", "sim_returned"} /\ gen.total_spaces = 0) =>
        /\ gen.phase = "sim_returned"
        /\ gen.total_occupied = 0
        /\ gen.total_available = 0
        /\ gen.occupancy_pct = 0
        /\ gen.areas = <<>>

-----------------------------------------------------------------------------
(* database.py: get_current_occupancy called on a store of any content *)

\* The records enumerated for a call at time t: none; one record of the first
\* area dated t, exactly 15 minutes before t, or a second less than that; two
\* records of the first area within the 15 minutes, inserted in either order;
\* and a record of the first area together with a later record of the lot itself
SnapshotRecords(t) ==
    {<<>>,
     <<NewRecord(1, 150, 1, t)>>,
     <<NewRecord(1, 150, 1, t - RECENT_MINUTES * MinuteSeconds)>>,
     <<NewRecord(1, 150, 1, t - RECENT_MINUTES * MinuteSeconds + 1)>>,
     <<NewRecord(1, 120, 1, t - 600), NewRecord(1, 150, 1, t - 60)>>,
     <<NewRecord(1, 150, 1, t - 60), NewRecord(1, 120, 1, t - 600)>>,
     <<NewRecord(1, 150, 1, t - 60), NewRecord(1, 77, NoArea, t)>>}

SnapshotTimes == {StartTime + d * DaySeconds : d \in 0..3}

\* The stores enumerated: the first k lots of the catalogue with their areas,
\* with no record or with records of the first lot, written at the time of
\* the call or days before it
SnapshotStores ==
    UNION {{[lots |-> SubSeq(SeedLots, 1, k),
             areas |-> SelectSeq(SeedAreas, LAMBDA a : a.lot_id <= k),
             records |-> IF k >= 1 THEN recs ELSE <<>>,
             t |-> t] :
               k \in 0..Len(SeedLots),
               recs \in UNION {SnapshotRecords(u) : u \in {v \in SnapshotTimes : v <= t}}} :
           t \in SnapshotTimes}

SnapshotCall ==
    /\ gen.phase = "idle"
    /\ \E store \in SnapshotStores, draw \in SnapshotDraws :
         gen' = [phase |-> "snapshot", store |-> store, draw |-> draw]
    /\ UNCHANGED <<now, storeVars, sessionVars, run, triggers, ticks>>

SnapshotReturn ==
    /\ gen.phase = "snapshot"
    /\ gen' = [phase |-> "snapshot_returned", store |-> gen.store,
               result |-> GetCurrentOccupancy(gen.store.lots, gen.store.areas,
                                              gen.store.records, gen.store.t, gen.draw)]
    /\ UNCHANGED <<now, storeVars, sessionVars, run, triggers, ticks>>

NextSnapshot == SnapshotCall \/ SnapshotReturn

SpecSnapshot == Init /\ [][NextSnapshot]_vars

\* C13: on a store with no lots the snapshot has total_spaces = 0,
\* total_occupied = 0, total_available = 0, occupancy_pct = 0 and no areas.
C13_NoLotsZeroSnapshot ==
    (gen.phase = "snapshot_returned" /\ gen.store.lots = <<>>) =>
        /\ gen.result.total_spaces = 0
        /\ gen.result.total_occupied = 0
        /\ gen.result.total_available = 0
        /\ gen.result.occupancy_pct.num = 0
        /\ DOMAIN gen.result.areas = {}
        /\ gen.result.timestamp = gen.store.t

\* a snapshot was returned for a store with no lots
C13_Witness ==
    /\ gen.phase = "snapshot_returned"
    /\ gen.store.lots = <<>>
    /\ gen.result.total_spaces = 0

-----------------------------------------------------------------------------
(* Claims about the areas of the simulated snapshot, checked under SpecSim *)

SimEntries == IF gen.phase \in {"areas", "sim_returned", "sim_raised"} THEN gen.areas ELSE <<>>

\* C14: the final occupancy ratio of every area of a simulated snapshot, after
\* the jitter and after the 0.7 factor of the VIP area, lies within
\* [0.05, 0.95], and the area's occupied count is that ratio times the area's
\* capacity, truncated.
C14_AreaRatioClamped ==
    \A i \in DOMAIN SimEntries :
        /\ RatioUnit \div 20 <= SimEntries[i].ratio
        /\ SimEntries[i].ratio <= (RatioUnit \div 20) * 19
        /\ SimEntries[i].occupied = (SimEntries[i].ratio * SimEntries[i].total) \div RatioUnit
        /\ SimEntries[i].available = SimEntries[i].total - SimEntries[i].occupied

\* a night snapshot whose VIP area has the least ratio the function can give
\* it, 0.1 * 0.8 * 0.7 = 0.056, and one occupied space of its 20
C14_Witness ==
    /\ gen.phase = "sim_returned"
    /\ gen.areas[4].name = "Area D - VIP"
    /\ gen.areas[4].ratio = 560000
    /\ gen.areas[4].occupied = 1
    /\ gen.areas[1].ratio > gen.areas[4].ratio

-----------------------------------------------------------------------------
(* prediction_model.py: predict_parking_availability *)

\* The fitted pipeline as far as the code depends on it.  The one-hot encoder
\* of day_of_week is built with its defaults, under which a category absent
\* from the training data makes transform raise ValueError.  The forest's
\* output is an average of training targets, so it lies between the least and
\* the greatest occupancy trained on; it is kept in halves, so that rounding
\* has something to do, and est picks one deterministic function of the query.
SeenDays(mdl) == {mdl.trained_on[i].day_of_week : i \in DOMAIN mdl.trained_on}

TargetMin(mdl) ==
    CHOOSE v \in {mdl.trained_on[i].occupancy : i \in DOMAIN mdl.trained_on} :
        \A i \in DOMAIN mdl.trained_on : v <= mdl.trained_on[i].occupancy

TargetMax(mdl) ==
    CHOOSE v \in {mdl.trained_on[i].occupancy : i \in DOMAIN mdl.trained_on} :
        \A i \in DOMAIN mdl.trained_on : v >= mdl.trained_on[i].occupancy

PredictRejects(mdl, day_of_week) == day_of_week \notin SeenDays(mdl)

\* model.predict(input_data)[0], in halves
RawPrediction(mdl, est, day_of_week, hour, minute) ==
    (2 * TargetMin(mdl))
      + ((day_of_week + hour + minute + est) % (2 * (TargetMax(mdl) - TargetMin(mdl)) + 1))

\* variant of round that truncates
RoundHalves_Truncating(h) == h \div 2

\* round(x) of a value given in halves: to the nearest integer, a half to the even one
RoundHalves(h) ==
    IF h % 2 = 0 THEN h \div 2
    ELSE LET k == (h - 1) \div 2 IN IF k % 2 = 0 THEN k ELSE k + 1

\* return max(0, int(round(prediction[0])))
PredictParkingAvailability(mdl, est, day_of_week, hour, minute) ==
    Max2(0, RoundHalves(RawPrediction(mdl, est, day_of_week, hour, minute)))

\* a row of a training series: an observation of a lot of 200 spaces
TrainRow(t, occupancy) ==
    [timestamp |-> t, occupancy |-> occupancy, total_spaces |-> 200,
     day_of_week |-> DayOfWeek(t), hour |-> HourOf(t), minute |-> MinuteOf(t)]

\* The training series enumerated: one or two observations, on a Wednesday, a
\* Thursday or a Saturday, one of them above the capacity
TrainRows ==
    {TrainRow(StartTime, 150), TrainRow(StartTime, 250),
     TrainRow(StartTime + DaySeconds, 3),
     TrainRow(5 * DaySeconds + 23 * HourSeconds + 30 * MinuteSeconds, 0)}

TrainSeries == {<<r>> : r \in TrainRows} \cup {<<r, q>> : r \in TrainRows, q \in TrainRows}

Estimators == 0..2

PredictCall ==
    /\ gen.phase = "idle"
    /\ \E series \in TrainSeries, est \in Estimators,
          day_of_week \in {0, 2, 3, 5}, hour \in {0, 9, 23}, minute \in {0, 59} :
         gen' = [phase |-> "predict", model |-> TrainPredictionModel(series), est |-> est,
                 day_of_week |-> day_of_week, hour |-> hour, minute |-> minute]
    /\ UNCHANGED <<now, storeVars, sessionVars, run, triggers, ticks>>

PredictReturn ==
    /\ gen.phase = "predict"
    /\ gen' = IF PredictRejects(gen.model, gen.day_of_week)
              THEN [gen EXCEPT !.phase = "predict_raised"]
              ELSE [phase |-> "predict_returned", model |-> gen.model, est |-> gen.est,
                    day_of_week |-> gen.day_of_week, hour |-> gen.hour, minute |-> gen.minute,
                    result |-> PredictParkingAvailability(gen.model, gen.est,
                                   gen.day_of_week, gen.hour, gen.minute)]
    /\ UNCHANGED <<now, storeVars, sessionVars, run, triggers, ticks>>

NextPredict == PredictCall \/ PredictReturn

SpecPredict == Init /\ [][NextPredict]_vars

\* C15: for every query with day_of_week in 0..6, hour in 0..23 and minute in
\* 0..59 on a model trained on at least one observation, predict returns a
\* non-negative integer.
C15_PredictTotal ==
    (gen.phase \in {"predict_raised", "predict_returned"} /\ Len(gen.model.trained_on) >= 1) =>
        /\ gen.phase = "predict_returned"
        /\ gen.result \in Nat

-----------------------------------------------------------------------------
(* prediction_model.py: predict_next_day *)

\* for i in range(1, 25)
ForecastHours == 24

\* variant that starts the forecast at the current hour
ForecastTime_FromNow(t, i) == t + (i - 1) * HourSeconds

\* predict_time = current_time + timedelta(hours=i)
ForecastTime(t, i) == t + i * HourSeconds

\* one entry of the forecast; the percentage divides by total_spaces
ForecastEntry(mdl, est, total_spaces, t, i) ==
    LET predict_time == ForecastTime(t, i)
        predicted_occupancy ==
            PredictParkingAvailability(mdl, est, DayOfWeek(predict_time), HourOf(predict_time), 0)
    IN  [timestamp |-> predict_time,
         predicted_occupancy |-> predicted_occupancy,
         occupancy_pct |-> Pct(predicted_occupancy, total_spaces),
         available_spaces |-> total_spaces - predicted_occupancy]

ForecastCall ==
    /\ gen.phase = "idle"
    /\ \E series \in TrainSeries, est \in Estimators, total_spaces \in {0, 200},
          t \in {StartTime, StartTime + 1, 5 * DaySeconds + 23 * HourSeconds + 30 * MinuteSeconds} :
         gen' = [phase |-> "forecast", model |-> TrainPredictionModel(series), est |-> est,
                 total_spaces |-> total_spaces, current_time |-> t, predictions |-> <<>>]
    /\ UNCHANGED <<now, storeVars, sessionVars, run, triggers, ticks>>

\* one iteration of the loop: the prediction, then the percentage
ForecastHour ==
    /\ gen.phase = "forecast"
    /\ Len(gen.predictions) < ForecastHours
    /\ LET i == Len(gen.predictions) + 1
           predict_time == ForecastTime(gen.current_time, i)
       IN  gen' = IF PredictRejects(gen.model, DayOfWeek(predict_time))
                  THEN [gen EXCEPT !.phase = "forecast_raised", !.predictions = <<>>]
                  ELSE IF gen.total_spaces = 0
                  THEN [gen EXCEPT !.phase = "forecast_raised", !.predictions = <<>>]
                  ELSE [gen EXCEPT !.predictions =
                           Append(@, ForecastEntry(gen.model, gen.est, gen.total_spaces,
                                                   gen.current_time, i))]
    /\ UNCHANGED <<now, storeVars, sessionVars, run, triggers, ticks>>

\* return pd.DataFrame(predictions)
ForecastReturn ==
    /\ gen.phase = "forecast"
    /\ Len(gen.predictions) = ForecastHours
    /\ gen' = [gen EXCEPT !.phase = "forecast_returned"]
    /\ UNCHANGED <<now, storeVars, sessionVars, run, triggers, ticks>>

NextForecast == ForecastCall \/ ForecastHour \/ ForecastReturn

SpecForecast == Init /\ [][NextForecast]_vars

\* the weekdays of the 24 hours after t
ForecastDays(t) == {DayOfWeek(t + i * 3600) : i \in 1..24}

-----------------------------------------------------------------------------
(* utils.py: calculate_statistics *)

\* variant that takes the hour of the clock for the date
DateOf_Hour(t) == t \div HourSeconds

\* datetime.date() of a time, as a day number
DateOf(t) == t \div DaySeconds

\* day_names[...]
DayNames == <<"Monday", "Tuesday", "Wednesday", "Thursday", "Friday", "Saturday", "Sunday">>

RECURSIVE SortedSeq(_)
\* the keys of a groupby, which come in ascending order
SortedSeq(S) ==
    IF S = {} THEN <<>>
    ELSE LET least == CHOOSE x \in S : \A y \in S : x <= y
         IN  <<least>> \o SortedSeq(S \ {least})

\* rows.groupby(field)['occupancy'].mean(): per key, in ascending key order,
\* the sum and the count of the group (the mean is sum / n)
GroupMeans(rows, field) ==
    LET keys == SortedSeq({rows[i][field] : i \in DOMAIN rows})
    IN  [k \in DOMAIN keys |->
            LET grp == SelectSeq(rows, LAMBDA r : r[field] = keys[k])
            IN  [key |-> keys[k],
                 sum |-> SumSeq([i \in DOMAIN grp |-> grp[i].occupancy]),
                 n |-> Len(grp)]]

MeanGreater(a, b) == a.sum * b.n > b.sum * a.n

\* variant of idxmax that keeps the last of equal maxima
RECURSIVE IdxMax_Last(_, _, _)
IdxMax_Last(groups, i, best) ==
    IF i > Len(groups) THEN groups[best].key
    ELSE IdxMax_Last(groups, i + 1, IF ~MeanGreater(groups[best], groups[i]) THEN i ELSE best)

\* Series.idxmax(): the label of the first occurrence of the maximum
RECURSIVE IdxMax(_, _, _)
IdxMax(groups, i, best) ==
    IF i > Len(groups) THEN groups[best].key
    ELSE IdxMax(groups, i + 1, IF MeanGreater(groups[i], groups[best]) THEN i ELSE best)

\* Series.idxmin(): the label of the first occurrence of the minimum
RECURSIVE IdxMin(_, _, _)
IdxMin(groups, i, best) ==
    IF i > Len(groups) THEN groups[best].key
    ELSE IdxMin(groups, i + 1, IF MeanGreater(groups[best], groups[i]) THEN i ELSE best)

Occupancies(rows) == {rows[i].occupancy : i \in DOMAIN rows}
MaxOf(S) == CHOOSE x \in S : \A y \in S : y <= x
MinOf(S) == CHOOSE x \in S : \A y \in S : x <= y

\* a mean, and a value as a percentage of total_spaces, as fractions
Frac(num, den) == [num |-> num, den |-> den]
ZeroFrac == Frac(0, 1)

\* mean, max and min of a window with their percentages, or zeros when it is empty
WindowStats(rows, total_spaces) ==
    IF Len(rows) > 0
    THEN LET sum == SumSeq([i \in DOMAIN rows |-> rows[i].occupancy])
         IN  [avg |-> Frac(sum, Len(rows)),
              peak |-> MaxOf(Occupancies(rows)),
              min |-> MinOf(Occupancies(rows)),
              avg_pct |-> Frac(sum * 100, Len(rows) * total_spaces),
              peak_pct |-> Frac(MaxOf(Occupancies(rows)) * 100, total_spaces),
              min_pct |-> Frac(MinOf(Occupancies(rows)) * 100, total_spaces)]
    ELSE [avg |-> ZeroFrac, peak |-> 0, min |-> 0,
          avg_pct |-> ZeroFrac, peak_pct |-> ZeroFrac, min_pct |-> ZeroFrac]

\* calculate_statistics(historical_data) run at time t on the rows of the frame
CalculateStatistics(rows, t) ==
    LET today == DateOf(t)
        today_data == SelectSeq(rows, LAMBDA r : DateOf(r.timestamp) = today)
        last_week == today - 7
        last_week_data == SelectSeq(rows, LAMBDA r : DateOf(r.timestamp) >= last_week)
        total_spaces == IF Len(today_data) > 0 THEN today_data[1].total_spaces
                        ELSE IF Len(rows) > 0 THEN rows[1].total_spaces ELSE 200
        hourly_avg == GroupMeans(last_week_data, "hour")
        daily_avg == GroupMeans(last_week_data, "day_of_week")
        busy == IF Len(last_week_data) > 0
                THEN [busiest_hour |-> IdxMax(hourly_avg, 1, 1),
                      quietest_hour |-> IdxMin(hourly_avg, 1, 1),
                      busiest_day |-> IdxMax(daily_avg, 1, 1),
                      quietest_day |-> IdxMin(daily_avg, 1, 1)]
                ELSE [busiest_hour |-> 12, quietest_hour |-> 3,
                      busiest_day |-> 2, quietest_day |-> 6]
    IN  [today |-> WindowStats(today_data, total_spaces),
         week |-> WindowStats(last_week_data, total_spaces),
         busiest_hour |-> busy.busiest_hour,
         quietest_hour |-> busy.quietest_hour,
         busiest_day |-> busy.busiest_day,
         quietest_day |-> busy.quietest_day,
         busiest_day_name |-> DayNames[busy.busiest_day + 1],
         quietest_day_name |-> DayNames[busy.quietest_day + 1]]

\* The frames enumerated.  A frame with rows has a datetime timestamp column.
\* An empty frame is one of three: the one get_historical_data returns, with
\* the expected columns and no datetime type; the one generate_parking_data
\* returns for no time points, with no columns; and a frame of datetime type
\* with every row filtered out.
StatRows ==
    {TrainRow(t, occ) :
        t \in {StartTime, StartTime + 6 * HourSeconds, StartTime - DaySeconds,
               StartTime - 7 * DaySeconds, StartTime - 8 * DaySeconds},
        occ \in {50, 100}}

StatFrames ==
    {[rows |-> s, columns |-> "datetime"] :
        s \in {<<r>> : r \in StatRows} \cup {<<r, q>> : r \in StatRows, q \in StatRows}}
    \cup {[rows |-> <<>>, columns |-> c] : c \in {"datetime", "object", "none"}}

\* the times of the calls: Wednesday 19:00 and 23:00, and the midnight after
StatTimes == {StartTime + 10 * HourSeconds, StartTime + 14 * HourSeconds,
              StartTime + 15 * HourSeconds}

\* historical_data['timestamp'].dt.date: needs the column, of datetime type
StatsOutcome(frame, t) ==
    IF frame.columns = "none" THEN [raised |-> TRUE, error |-> "KeyError"]
    ELSE IF frame.columns = "object" THEN [raised |-> TRUE, error |-> "AttributeError"]
    ELSE [raised |-> FALSE, stats |-> CalculateStatistics(frame.rows, t)]

StatsFrame ==
    /\ gen.phase = "idle"
    /\ \E frame \in StatFrames : gen' = [phase |-> "stats", frame |-> frame, calls |-> <<>>]
    /\ UNCHANGED <<now, storeVars, sessionVars, run, triggers, ticks>>

\* one call of calculate_statistics on the frame, at the time of the call or later
Summarize ==
    /\ gen.phase = "stats"
    /\ Len(gen.calls) < 2
    /\ \E t \in StatTimes :
         /\ \A i \in DOMAIN gen.calls : gen.calls[i].t <= t
         /\ gen' = [gen EXCEPT !.calls = Append(@, [t |-> t, outcome |-> StatsOutcome(gen.frame, t)])]
    /\ UNCHANGED <<now, storeVars, sessionVars, run, triggers, ticks>>

NextStats == StatsFrame \/ Summarize

SpecStats == Init /\ [][NextStats]_vars

-----------------------------------------------------------------------------
(* Claims about the statistics, checked under SpecStats *)

StatCalls == IF gen.phase = "stats" THEN gen.calls ELSE <<>>

\* no row of the frame is dated within the 7 days before the date of t
WindowEmpty(frame, t) ==
    \A i \in DOMAIN frame.rows : frame.rows[i].timestamp \div DaySeconds < (t \div DaySeconds) - 7

FallbackStats ==
    LET zeros == [avg |-> ZeroFrac, peak |-> 0, min |-> 0,
                  avg_pct |-> ZeroFrac, peak_pct |-> ZeroFrac, min_pct |-> ZeroFrac]
    IN  [today |-> zeros, week |-> zeros,
         busiest_hour |-> 12, quietest_hour |-> 3, busiest_day |-> 2, quietest_day |-> 6,
         busiest_day_name |-> "Wednesday", quietest_day_name |-> "Sunday"]

\* C17: a call on a frame with no observation of the last 7 days, an empty
\* frame included, raises nothing and returns busiest_hour 12, quietest_hour 3,
\* Wednesday, Sunday and zeros for every mean, maximum, minimum and percentage.
C17_EmptyWindowFallback ==
    \A i \in DOMAIN StatCalls :
        WindowEmpty(gen.frame, StatCalls[i].t) =>
            /\ ~StatCalls[i].outcome.raised
            /\ StatCalls[i].outcome.stats = FallbackStats

\* the rows of the frame dated within the 7 days before the date of t
WindowRows(frame, t) ==
    SelectSeq(frame.rows, LAMBDA r : r.timestamp \div DaySeconds >= (t \div DaySeconds) - 7)

\* sum and count of the occupancies of the rows whose key is k
SumAt(rows, keyOf(_), k) ==
    SumSeq([i \in DOMAIN rows |-> IF keyOf(rows[i]) = k THEN rows[i].occupancy ELSE 0])
CountAt(rows, keyOf(_), k) == Cardinality({i \in DOMAIN rows : keyOf(rows[i]) = k})

\* the keys whose mean is the greatest, and those whose mean is the least
ArgMax(rows, keyOf(_)) ==
    LET keys == {keyOf(rows[i]) : i \in DOMAIN rows}
    IN  {k \in keys : \A j \in keys :
            SumAt(rows, keyOf, k) * CountAt(rows, keyOf, j)
              >= SumAt(rows, keyOf, j) * CountAt(rows, keyOf, k)}
ArgMin(rows, keyOf(_)) ==
    LET keys == {keyOf(rows[i]) : i \in DOMAIN rows}
    IN  {k \in keys : \A j \in keys :
            SumAt(rows, keyOf, k) * CountAt(rows, keyOf, j)
              <= SumAt(rows, keyOf, j) * CountAt(rows, keyOf, k)}

\* C18: on a window that is not empty the busiest (quietest) hour is the
\* smallest hour among those of greatest (least) mean occupancy over the
\* window, the busiest (quietest) weekday the smallest weekday index among
\* those of greatest (least) mean, named with 0 = Monday.
C18_FirstMaxFirstMin ==
    \A i \in DOMAIN StatCalls :
        (~StatCalls[i].outcome.raised /\ ~WindowEmpty(gen.frame, StatCalls[i].t)) =>
            LET rows == WindowRows(gen.frame, StatCalls[i].t)
                stats == StatCalls[i].outcome.stats
                hourOf(r) == r.hour
                dayOf(r) == r.day_of_week
            IN  /\ stats.busiest_hour = MinOf(ArgMax(rows, hourOf))
                /\ stats.quietest_hour = MinOf(ArgMin(rows, hourOf))
                /\ stats.busiest_day = MinOf(ArgMax(rows, dayOf))
                /\ stats.quietest_day = MinOf(ArgMin(rows, dayOf))
                /\ stats.busiest_day_name = DayNames[stats.busiest_day + 1]
                /\ stats.quietest_day_name = DayNames[stats.quietest_day + 1]
                /\ DayNames[1] = "Monday"

\* a window of two observations of equal occupancy, Tuesday 09:00 and
\* Wednesday 15:00: hours 9 and 15 tie and so do the two weekdays; the call
\* answered hour 9 and Tuesday
C18_Witness ==
    \E i \in DOMAIN StatCalls :
        /\ ~StatCalls[i].outcome.raised
        /\ Len(gen.frame.rows) = 2
        /\ gen.frame.rows[1].occupancy = gen.frame.rows[2].occupancy
        /\ {gen.frame.rows[1].hour, gen.frame.rows[2].hour} = {9, 15}
        /\ {gen.frame.rows[1].day_of_week, gen.frame.rows[2].day_of_week} = {1, 2}
        /\ StatCalls[i].outcome.stats.busiest_hour = 9
        /\ StatCalls[i].outcome.stats.quietest_hour = 9
        /\ StatCalls[i].outcome.stats.busiest_day_name = "Tuesday"

-----------------------------------------------------------------------------
(* utils.py: generate_recommendations *)

\* Python evaluates (x / total_spaces) * 100 in binary64 arithmetic: the
\* quotient is rounded to 53 significant bits, half to even, and so is its
\* product by 100.  For 1 <= x <= total_spaces the computed percentage is
\*     100 * x / total_spaces  +  err / (total_spaces * 2^(shift + MantissaBits))
\* with err and shift as PctError gives them; a count of 0 gives exactly 0.
MantissaBits == 52

\* 2^e modulo m, for e <= 60 and m * m within the integers
Pow2Mod(e, m) ==
    IF e <= 30 THEN (2^e) % m
    ELSE (((2^30) % m) * ((2^(e - 30)) % m)) % m

\* the number of doublings that bring x / total_spaces into [1, 2)
LeadShift(x, total_spaces) ==
    CHOOSE L \in 0..10 :
        /\ x * 2^L >= total_spaces
        /\ \A K \in 0..(L - 1) : x * 2^K < total_spaces

\* the rounding error of (x / total_spaces) * 100
PctError(x, total_spaces) ==
    IF x = 0 THEN [err |-> 0, shift |-> 0]
    ELSE
    LET L == LeadShift(x, total_spaces)
        a == L + MantissaBits
        \* x / total_spaces: the quotient floor(x * 2^a / total_spaces) has
        \* 53 bits; R is what the division leaves, low8 the last 8 bits
        R == (x * Pow2Mod(a, total_spaces)) % total_spaces
        low8 == (256 * ((x * Pow2Mod(a - 8, total_spaces)) % total_spaces))
                    \div total_spaces
        inc == IF 2 * R > total_spaces \/ (2 * R = total_spaces /\ low8 % 2 = 1)
               THEN 1 ELSE 0
        \* the rounded quotient q is (x * 2^a + qerr) / total_spaces
        qerr == inc * total_spaces - R
        qlow == (low8 + inc) % 256
        \* q * 100 has 59 or 60 bits, of which 6 or 7 are rounded away
        lead == 100 * x * 2^L - 128 * total_spaces
        s == IF lead > 0 \/ (lead = 0 /\ qerr >= 0) THEN 7 ELSE 6
        plow == (100 * qlow) % 2^(s + 1)
        dropped == plow % 2^s
        up == \/ dropped > 2^(s - 1)
              \/ (dropped = 2^(s - 1) /\ plow \div 2^s = 1)
        perr == (IF up THEN 2^s ELSE 0) - dropped
    IN  [err |-> perr * total_spaces + 100 * qerr, shift |-> L]

\* (x / total_spaces) * 100 < k, for a whole number k
PctBelow(x, total_spaces, k) ==
    LET d == 100 * x - k * total_spaces
    IN  IF d # 0 THEN d < 0 ELSE PctError(x, total_spaces).err < 0

\* to_pct - from_pct > k, for k = 5 or k = 10: the difference of the two
\* computed percentages is rounded to 53 bits, half to even, so it is over k
\* iff the unrounded difference is over k by more than half the spacing of
\* the numbers next to k, which is 2 (k = 5) or 4 (k = 10) times 2^(-MantissaBits)
DeltaOver(from_occupancy, to_occupancy, total_spaces, k) ==
    LET d == 100 * (to_occupancy - from_occupancy) - k * total_spaces
        f == PctError(from_occupancy, total_spaces)
        t == PctError(to_occupancy, total_spaces)
        m == IF f.shift > t.shift THEN f.shift ELSE t.shift
        half == IF k < 8 THEN 2 ELSE 4
    IN  IF d # 0 THEN d > 0
        ELSE t.err * 2^(m - t.shift) - f.err * 2^(m - f.shift)
                > half * total_spaces * 2^m

\* variant whose low status reaches up to 50 per cent itself
CurrentStatus_Inclusive(current_occupancy, total_spaces) ==
    IF PctBelow(current_occupancy, total_spaces, 50)
          \/ 100 * current_occupancy = 50 * total_spaces
    THEN "Low occupancy - Plenty of parking available"
    ELSE IF PctBelow(current_occupancy, total_spaces, 80)
    THEN "Moderate occupancy - Parking available but filling up"
    ELSE "High occupancy - Limited parking available"

\* the status, from current_pct
CurrentStatus(current_occupancy, total_spaces) ==
    IF PctBelow(current_occupancy, total_spaces, 50)
    THEN "Low occupancy - Plenty of parking available"
    ELSE IF PctBelow(current_occupancy, total_spaces, 80)
    THEN "Moderate occupancy - Parking available but filling up"
    ELSE "High occupancy - Limited parking available"

\* the trend, from predicted_pct - current_pct
Trend(current_occupancy, predicted_occupancy, total_spaces) ==
    IF DeltaOver(current_occupancy, predicted_occupancy, total_spaces, 10)
    THEN "Occupancy increasing significantly"
    ELSE IF DeltaOver(current_occupancy, predicted_occupancy, total_spaces, 5)
    THEN "Occupancy increasing"
    ELSE IF DeltaOver(predicted_occupancy, current_occupancy, total_spaces, 10)
    THEN "Occupancy decreasing significantly"
    ELSE IF DeltaOver(predicted_occupancy, current_occupancy, total_spaces, 5)
    THEN "Occupancy decreasing"
    ELSE "Occupancy stable"

\* variant whose highest tier starts above 90 per cent
Recommendation_Strict(predicted_occupancy, total_spaces) ==
    IF ~PctBelow(predicted_occupancy, total_spaces, 90)
          /\ 100 * predicted_occupancy # 90 * total_spaces
    THEN "Parking will be very limited. Consider alternative transportation or arriving early."
    ELSE IF ~PctBelow(predicted_occupancy, total_spaces, 75)
    THEN "Parking may be difficult to find during peak hours. Plan accordingly."
    ELSE IF ~PctBelow(predicted_occupancy, total_spaces, 50)
    THEN "Moderate parking availability expected. Some searching may be required."
    ELSE "Good parking availability expected. No special measures needed."

\* the suggestion, from predicted_pct
Recommendation(predicted_occupancy, total_spaces) ==
    IF ~PctBelow(predicted_occupancy, total_spaces, 90)
    THEN "Parking will be very limited. Consider alternative transportation or arriving early."
    ELSE IF ~PctBelow(predicted_occupancy, total_spaces, 75)
    THEN "Parking may be difficult to find during peak hours. Plan accordingly."
    ELSE IF ~PctBelow(predicted_occupancy, total_spaces, 50)
    THEN "Moderate parking availability expected. Some searching may be required."
    ELSE "Good parking availability expected. No special measures needed."

GenerateRecommendations(current_occupancy, predicted_occupancy, total_spaces) ==
    [current_status |-> CurrentStatus(current_occupancy, total_spaces),
     trend |-> Trend(current_occupancy, predicted_occupancy, total_spaces),
     recommendation |-> Recommendation(predicted_occupancy, total_spaces)]

\* The calls enumerated: a lot of 0 spaces with any counts, and counts in
\* steps of 10 up to the total on lots of 100 and 200 spaces,
\* which put the delta on, just under and just over 5 and 10 points; on 200
\* spaces the counts 90 and 110 are 45 and 55 per cent, 10 points apart,
\* and 110 / 200 * 100 is computed as 55.00000000000001
RecommendCounts == {10 * k : k \in 0..20}

RecommendCall ==
    /\ gen.phase = "idle"
    /\ \E total_spaces \in {0, 100, 200} :
         \E current \in RecommendCounts, predicted \in RecommendCounts :
            /\ total_spaces > 0 => (current <= total_spaces /\ predicted <= total_spaces)
            /\ gen' = [phase |-> "recommend", current_occupancy |-> current,
                       predicted_occupancy |-> predicted, total_spaces |-> total_spaces]
    /\ UNCHANGED <<now, storeVars, sessionVars, run, triggers, ticks>>

\* current_occupancy / total_spaces is the first statement: a total of 0
\* raises ZeroDivisionError there, and nothing in the function handles it
RecommendReturn ==
    /\ gen.phase = "recommend"
    /\ gen' = IF gen.total_spaces = 0
              THEN [gen EXCEPT !.phase = "recommend_raised"]
                      @@ [error |-> "ZeroDivisionError"]
              ELSE [gen EXCEPT !.phase = "recommend_returned"]
                      @@ [result |-> GenerateRecommendations(gen.current_occupancy,
                                         gen.predicted_occupancy, gen.total_spaces)]
    /\ UNCHANGED <<now, storeVars, sessionVars, run, triggers, ticks>>

NextRecommend == RecommendCall \/ RecommendReturn

SpecRecommend == Init /\ [][NextRecommend]_vars

\* C20: the trend is "increasing significantly" iff the delta of the two
\* percentages is over 10, "increasing" iff it is over 5 and at most 10,
\* "decreasing significantly" iff under -10, "decreasing" iff at least -10 and
\* under -5, "stable" iff between -5 and 5; and (150, 180, 200) gives the
\* moderate status, the trend "increasing significantly" and the suggestion
\* of the highest tier.
C20_FiveTrends ==
    gen.phase = "recommend_returned" =>
        LET d == (gen.predicted_occupancy - gen.current_occupancy) * 100
            t == gen.total_spaces
            trend == gen.result.trend
        IN  /\ (trend = "Occupancy increasing significantly") <=> (d > 10 * t)
            /\ (trend = "Occupancy increasing") <=> (5 * t < d /\ d <= 10 * t)
            /\ (trend = "Occupancy decreasing significantly") <=> (d < -10 * t)
            /\ (trend = "Occupancy decreasing") <=> (-10 * t <= d /\ d < -5 * t)
            /\ (trend = "Occupancy stable") <=> (-5 * t <= d /\ d <= 5 * t)
            /\ (gen.current_occupancy = 150 /\ gen.predicted_occupancy = 180 /\ t = 200) =>
                 /\ gen.result.current_status
                      = "Moderate occupancy - Parking available but filling up"
                 /\ trend = "Occupancy increasing significantly"
                 /\ gen.result.recommendation
                      = "Parking will be very limited. Consider alternative transportation or arriving early."

\* C21: the status is the low one iff the current percentage is under 50,
\* the moderate one iff it is at least 50 and under 80, the high one iff it
\* is at least 80.
C21_ThreeStatuses ==
    gen.phase = "recommend_returned" =>
        LET c == 100 * gen.current_occupancy
            t == gen.total_spaces
            status == gen.result.current_status
        IN  /\ (status = "Low occupancy - Plenty of parking available") <=> (c < 50 * t)
            /\ (status = "Moderate occupancy - Parking available but filling up")
                   <=> (50 * t <= c /\ c < 80 * t)
            /\ (status = "High occupancy - Limited parking available") <=> (c >= 80 * t)

\* a call with the current percentage on 50 returned the moderate status
C21_Witness ==
    /\ gen.phase = "recommend_returned"
    /\ 100 * gen.current_occupancy = 50 * gen.total_spaces
    /\ gen.result.current_status = "Moderate occupancy - Parking available but filling up"

\* C22: the suggestion is the first tier iff the predicted percentage is at
\* least 90, the second iff it is at least 75 and under 90, the third iff it
\* is at least 50 and under 75, the fourth iff it is under 50.
C22_FourTiers ==
    gen.phase = "recommend_returned" =>
        LET p == 100 * gen.predicted_occupancy
            t == gen.total_spaces
            tier == gen.result.recommendation
        IN  /\ (tier = "Parking will be very limited. Consider alternative transportation or arriving early.")
                   <=> (p >= 90 * t)
            /\ (tier = "Parking may be difficult to find during peak hours. Plan accordingly.")
                   <=> (75 * t <= p /\ p < 90 * t)
            /\ (tier = "Moderate parking availability expected. Some searching may be required.")
                   <=> (50 * t <= p /\ p < 75 * t)
            /\ (tier = "Good parking availability expected. No special measures needed.")
                   <=> (p < 50 * t)

\* a call with the predicted percentage on 90 returned the first tier
C22_Witness ==
    /\ gen.phase = "recommend_returned"
    /\ 100 * gen.predicted_occupancy = 90 * gen.total_spaces
    /\ gen.result.recommendation
         = "Parking will be very limited. Consider alternative transportation or arriving early."

\* C23: a call with total_spaces <= 0 returns a defined result; it does not
\* fail with a division by zero.
C23_DegenerateCapacity ==
    (gen.phase \in {"recommend_returned", "recommend_raised"} /\ gen.total_spaces <= 0)
        => gen.phase = "recommend_returned"

-----------------------------------------------------------------------------
(* database.py: add_occupancy_record followed by get_historical_data *)

\* The calls enumerated: on the seeded catalogue, holding no record or one
\* record of the last lot, a record of lot 1 or 2 for the lot itself or for
\* one of its areas, dated on the hour, off the hour and late on a Saturday
AppendTimes == {StartTime, StartTime + 17 * MinuteSeconds + 42,
                5 * DaySeconds + 23 * HourSeconds + 59 * MinuteSeconds + 59}

AppendCall ==
    /\ gen.phase = "idle"
    /\ \E lot_id \in {1, 2}, occupied_spaces \in {0, 150}, timestamp \in AppendTimes,
          withRecord \in BOOLEAN :
         \E area_id \in {NoArea} \cup {a.id : a \in Range(GetParkingAreas(SeedAreas, lot_id))} :
            gen' = [phase |-> "appended", lot_id |-> lot_id, area_id |-> area_id,
                    occupied_spaces |-> occupied_spaces, timestamp |-> timestamp,
                    records |-> AddOccupancyRecord(
                                   IF withRecord THEN <<NewRecord(4, 90, 14, StartTime)>> ELSE <<>>,
                                   lot_id, occupied_spaces, area_id, timestamp)]
    /\ UNCHANGED <<now, storeVars, sessionVars, run, triggers, ticks>>

\* get_historical_data(days=7), called at once, exactly seven days later or
\* a second after that
FetchCall ==
    /\ gen.phase = "appended"
    /\ \E later \in {0, HISTORY_DAYS * DaySeconds, HISTORY_DAYS * DaySeconds + 1},
          rev \in BOOLEAN :
         gen' = [gen EXCEPT !.phase = "fetched"]
                  @@ [fetched_at |-> gen.timestamp + later,
                      series |-> GetHistoricalData(SeedLots, gen.records,
                                     gen.timestamp + later, HISTORY_DAYS, rev)]
    /\ UNCHANGED <<now, storeVars, sessionVars, run, triggers, ticks>>

NextRoundTrip == AppendCall \/ FetchCall

SpecRoundTrip == Init /\ [][NextRoundTrip]_vars

\* the rows of the fetched series that come from the appended record
AppendedFetched ==
    {i \in DOMAIN gen.series : gen.series[i].lot_id = gen.lot_id}

\* the capacity the appended count was observed against: the area's when the
\* record is of an area, the lot's otherwise
ObservedCapacity ==
    IF gen.area_id = NoArea
    THEN LotOf(SeedLots, gen.lot_id).total_spaces
    ELSE (CHOOSE a \in Range(SeedAreas) : a.id = gen.area_id).total_spaces

\* C24: an observation appended and then returned by the fetch has the
\* timestamp and the occupied count it was appended with, day_of_week, hour
\* and minute equal to the weekday (0 = Monday), hour and minute of the
\* timestamp, and the capacity it was observed against.
C24_RoundTrip ==
    gen.phase = "fetched" =>
        \A i \in AppendedFetched :
            LET row == gen.series[i]
            IN  /\ row.timestamp = gen.timestamp
                /\ row.occupancy = gen.occupied_spaces
                /\ row.day_of_week = (gen.timestamp \div 86400) % 7
                /\ row.hour = (gen.timestamp % 86400) \div 3600
                /\ row.minute = (gen.timestamp % 3600) \div 60
                /\ row.total_spaces = ObservedCapacity

-----------------------------------------------------------------------------
(* The order of the session's series *)

\* the records the store held before the last refresh added its own
RecordsBeforeRefresh == SubSeq(records, 1, Len(records) - run.appended)

\* the records the last refresh added
RefreshAppended == SubSeq(records, Len(records) - run.appended + 1, Len(records))

\* C25: the series held by the session is in non-decreasing timestamp order,
\* and every record a refresh appends carries a timestamp not earlier than
\* any observation of the series the refresh fetched, nor than any record the
\* store already held.
C25_TimeOrdered ==
    /\ \A i \in 1..(Len(historical_data) - 1) :
           historical_data[i].timestamp <= historical_data[i + 1].timestamp
    /\ run.appended > 0 =>
           \A k \in DOMAIN RefreshAppended :
               /\ \A i \in DOMAIN historical_data :
                      historical_data[i].timestamp <= RefreshAppended[k].timestamp
               /\ \A j \in DOMAIN RecordsBeforeRefresh :
                      RecordsBeforeRefresh[j].timestamp <= RefreshAppended[k].timestamp

\* a refresh fetched a series that was not empty and appended records dated
\* later than all of its observations
C25_Witness ==
    /\ run.refreshed
    /\ run.appended > 0
    /\ Len(historical_data) > 0
    /\ \A i \in DOMAIN historical_data :
           historical_data[i].timestamp < RefreshAppended[1].timestamp

-----------------------------------------------------------------------------
(* database.py: seed_database, one pass of the loop over the lots *)

\* occupancy_rate is base_rate + variation with base_rate from 0.25 to 0.75
\* and variation from -0.1 to 0.1, a continuous draw: lot_occupancy takes
\* every whole number from 15 to 85 per cent of the lot
SeedLotOccupancies(lot) ==
    ((lot.total_spaces * 15) \div 100)..((lot.total_spaces * 85) \div 100)

\* the lot record of a lot at one row of the seeded series
SeedLotStep ==
    /\ gen.phase = "idle"
    /\ \E l \in DOMAIN SeedLots :
         \E lot_occupancy \in SeedLotOccupancies(SeedLots[l]) :
            gen' = [phase |-> "seed_lot", lot |-> SeedLots[l], t |-> StartTime,
                    lot_occupancy |-> lot_occupancy,
                    records |-> <<NewRecord(SeedLots[l].id, lot_occupancy, NoArea, StartTime)>>]
    /\ UNCHANGED <<now, storeVars, sessionVars, run, triggers, ticks>>

\* the records of its areas
SeedAreasStep ==
    /\ gen.phase = "seed_lot"
    /\ gen' = [gen EXCEPT !.phase = "seed_areas",
                          !.records = SeedLotRecordsAt(gen.lot, SeedAreas, gen.t,
                                                       gen.lot_occupancy)]
    /\ UNCHANGED <<now, storeVars, sessionVars, run, triggers, ticks>>

NextSeedLot == SeedLotStep \/ SeedAreasStep

SpecSeedLot == Init /\ [][NextSeedLot]_vars

\* the area-level records among the records of the pass
SeededAreaRecords == SelectSeq(gen.records, LAMBDA r : r.area_id # NoArea)

\* C27: for a seeded timestamp and lot, the area-level occupied_spaces add up
\* to the lot-level occupied_spaces, there is one area record per area of the
\* lot, and no area record exceeds the capacity of its area.
C27_SeedDistribution ==
    gen.phase = "seed_areas" =>
        /\ gen.records[1].area_id = NoArea
        /\ SumSeq([i \in DOMAIN SeededAreaRecords |-> SeededAreaRecords[i].occupied_spaces])
              = gen.records[1].occupied_spaces
        /\ {SeededAreaRecords[i].area_id : i \in DOMAIN SeededAreaRecords}
              = {a.id : a \in {b \in Range(SeedAreas) : b.lot_id = gen.lot.id}}
        /\ Len(SeededAreaRecords) = Cardinality({b \in Range(SeedAreas) : b.lot_id = gen.lot.id})
        /\ \A i \in DOMAIN SeededAreaRecords :
              LET r == SeededAreaRecords[i]
              IN  /\ r.occupied_spaces >= 0
                  /\ r.occupied_spaces
                        <= (CHOOSE a \in Range(SeedAreas) : a.id = r.area_id).total_spaces

\* a pass in which the proportional shares lose a remainder, which the last
\* area takes
C27_Witness ==
    /\ gen.phase = "seed_areas"
    /\ gen.lot.id = 3
    /\ gen.lot_occupancy = 1000
    /\ SeededAreaRecords[1].occupied_spaces = 176
    /\ SeededAreaRecords[2].occupied_spaces = 588
    /\ SeededAreaRecords[3].occupied_spaces = 236

\* the records of an area dated strictly later than 15 minutes before the call
RecentOf(a) ==
    {i \in DOMAIN gen.store.records :
        /\ gen.store.records[i].area_id = a.id
        /\ gen.store.records[i].timestamp > gen.store.t - 900}

\* the areas whose entry the snapshot reports under their name: an area
\* visited later under the same name takes the entry over
ReportedAreas ==
    LET visited == AreasByLot(gen.store.lots, gen.store.areas)
    IN  {visited[i] : i \in {j \in DOMAIN visited :
            \A k \in DOMAIN visited : visited[k].name = visited[j].name => k <= j}}

RECURSIVE SumOccupied(_, _)
SumOccupied(entries, names) ==
    IF names = {} THEN 0
    ELSE LET n == CHOOSE x \in names : TRUE
         IN  entries[n].occupied + SumOccupied(entries, names \ {n})

\* C28: in a snapshot total_occupied is the sum of the occupied counts of the
\* entries of the area mapping, and the mapping has one entry per area of the
\* catalogue, also when areas of different lots have the same name.
C28_MappingComplete ==
    gen.phase = "snapshot_returned" =>
        /\ Cardinality(DOMAIN gen.result.areas) = Len(gen.store.areas)
        /\ gen.result.total_occupied
              = SumOccupied(gen.result.areas, DOMAIN gen.result.areas)

-----------------------------------------------------------------------------
(* database.py: add_parking_lot, add_parking_area, get_current_occupancy and *)
(* the records of a refresh, on the seeded store                             *)

\* the lots and areas added after seeding
MaxAdds == 2

\* add_parking_lot(name, total_spaces): the next id, no check of the arguments
AddParkingLot(ls, name, total_spaces) ==
    Append(ls, [id |-> Len(ls) + 1, name |-> name, total_spaces |-> total_spaces])

\* add_parking_area(name, total_spaces, lot_id): the next id; the capacity is
\* not compared with the lot's, nor the name with the names in use
AddParkingArea(as, name, total_spaces, lot_id) ==
    Append(as, [id |-> Len(as) + 1, name |-> name, total_spaces |-> total_spaces,
                lot_id |-> lot_id])

\* the Management page opened on the seeded store
ManageOpen ==
    /\ gen.phase = "idle"
    /\ gen' = [phase |-> "manage", lots |-> SeedLots, areas |-> SeedAreas,
               records |-> <<>>, adds |-> 0, snapshots |-> 0,
               snapshot |-> EmptySnapshot(0)]
    /\ UNCHANGED <<now, storeVars, sessionVars, run, triggers, ticks>>

\* the form "Add Parking Lot"
ManageAddLot ==
    /\ gen.phase = "manage"
    /\ gen.adds < MaxAdds
    /\ \E total_spaces \in {1, 100} :
         gen' = [gen EXCEPT !.lots = AddParkingLot(@, "New Lot", total_spaces),
                            !.adds = @ + 1]
    /\ UNCHANGED <<now, storeVars, sessionVars, run, triggers, ticks>>

\* the form "Add Area", for the main lot or the lot added last
ManageAddArea ==
    /\ gen.phase = "manage"
    /\ gen.adds < MaxAdds
    /\ \E lot_id \in {1, Len(gen.lots)}, name \in {"Level 1", "Visitor Zone"},
          total_spaces \in {50, 20000} :
         gen' = [gen EXCEPT !.areas = AddParkingArea(@, name, total_spaces, lot_id),
                            !.adds = @ + 1]
    /\ UNCHANGED <<now, storeVars, sessionVars, run, triggers, ticks>>

\* get_current_occupancy()
ManageSnapshot ==
    /\ gen.phase = "manage"
    /\ \E draw \in SnapshotDraws :
         gen' = [gen EXCEPT !.snapshot = GetCurrentOccupancy(gen.lots, gen.areas,
                                             gen.records, StartTime, draw),
                            !.snapshots = 1]
    /\ UNCHANGED <<now, storeVars, sessionVars, run, triggers, ticks>>

\* the records a refresh adds from the snapshot it took
ManageRefresh ==
    /\ gen.phase = "manage"
    /\ gen.snapshots = 1
    /\ gen.records = <<>>
    /\ gen' = [gen EXCEPT !.records = RefreshRecords(gen.lots, gen.areas,
                                                     gen.snapshot, StartTime)]
    /\ UNCHANGED <<now, storeVars, sessionVars, run, triggers, ticks>>

NextManage == ManageOpen \/ ManageAddLot \/ ManageAddArea \/ ManageSnapshot \/ ManageRefresh

SpecManage == Init /\ [][NextManage]_vars

\* C29: in every snapshot 0 <= total_occupied <= total_spaces,
\* total_available = total_spaces - total_occupied >= 0, and every area entry
\* has 0 <= occupied <= total and available = total - occupied.
C29_SnapshotBounds ==
    (gen.phase = "manage" /\ gen.snapshots = 1) =>
        LET s == gen.snapshot
        IN  /\ 0 <= s.total_occupied
            /\ s.total_occupied <= s.total_spaces
            /\ s.total_available = s.total_spaces - s.total_occupied
            /\ s.total_available >= 0
            /\ \A n \in DOMAIN s.areas :
                  /\ 0 <= s.areas[n].occupied
                  /\ s.areas[n].occupied <= s.areas[n].total
                  /\ s.areas[n].available = s.areas[n].total - s.areas[n].occupied

-----------------------------------------------------------------------------
(* database.py: seed_database, statement by statement, with its commits *)

\* the calls of seed_database in one behaviour
MaxSeedCalls == 2

SeedCallTimes == {StartTime + d * DaySeconds + h * HourSeconds : d \in 0..6, h \in {0, 10}}

\* the first call, on the empty store
SeedCall ==
    /\ gen.phase = "idle"
    /\ \E t \in SeedCallTimes :
         gen' = [phase |-> "seed", step |-> "count", lots |-> <<>>, areas |-> <<>>,
                 records |-> <<>>, points |-> <<>>, t |-> t, calls |-> 1]
    /\ UNCHANGED <<now, storeVars, sessionVars, run, triggers, ticks>>

\* a later call, after the one before returned or raised
SeedCallAgain ==
    /\ gen.phase = "seed"
    /\ gen.step \in {"returned", "raised"}
    /\ gen.calls < MaxSeedCalls
    /\ gen' = [gen EXCEPT !.step = "count", !.calls = @ + 1, !.t = @ + HourSeconds]
    /\ UNCHANGED <<now, storeVars, sessionVars, run, triggers, ticks>>

\* if existing_lots > 0: return
SeedCount ==
    /\ gen.phase = "seed"
    /\ gen.step = "count"
    /\ gen' = [gen EXCEPT !.step = IF Len(gen.lots) > 0 THEN "returned" ELSE "catalog"]
    /\ UNCHANGED <<now, storeVars, sessionVars, run, triggers, ticks>>

\* the lots and the areas are added and committed
SeedCatalog ==
    /\ gen.phase = "seed"
    /\ gen.step = "catalog"
    /\ gen' = [gen EXCEPT !.step = "generate", !.lots = SeedLots, !.areas = SeedAreas]
    /\ UNCHANGED <<now, storeVars, sessionVars, run, triggers, ticks>>

\* historical_data = generate_parking_data(start_time, end_time)
SeedGenerate ==
    /\ gen.phase = "seed"
    /\ gen.step = "generate"
    /\ gen' = [gen EXCEPT !.step = "insert",
                          !.points = TimePoints(gen.t - SEED_DAYS * DaySeconds, gen.t,
                                                SeedIntervalMinutes)]
    /\ UNCHANGED <<now, storeVars, sessionVars, run, triggers, ticks>>

\* the records are added to the session and committed at the end of the loop
SeedInsert ==
    /\ gen.phase = "seed"
    /\ gen.step = "insert"
    /\ \E draw \in VariationDraws :
         gen' = [gen EXCEPT !.step = "returned",
                            !.records = @ \o SeedRecords(gen.lots, gen.areas, gen.points,
                                                         1, 1, draw)]
    /\ UNCHANGED <<now, storeVars, sessionVars, run, triggers, ticks>>

\* an exception while the series is generated or the records are inserted:
\* session.rollback() discards what was not committed, and the call raises
SeedFail ==
    /\ gen.phase = "seed"
    /\ gen.step \in {"generate", "insert"}
    /\ gen' = [gen EXCEPT !.step = "raised", !.points = <<>>]
    /\ UNCHANGED <<now, storeVars, sessionVars, run, triggers, ticks>>

NextSeed == SeedCall \/ SeedCallAgain \/ SeedCount \/ SeedCatalog \/ SeedGenerate
               \/ SeedInsert \/ SeedFail

SpecSeed == Init /\ [][NextSeed]_vars

\* C30: a call that raised left the store empty, a store at rest never holds
\* lots and areas without seeded records, and a call that returned left the
\* store seeded (so a call after a failed one completes the seeding).
C30_SeedAllOrNothing ==
    (gen.phase = "seed" /\ gen.step \in {"returned", "raised"}) =>
        /\ gen.step = "raised" => (gen.lots = <<>> /\ gen.areas = <<>> /\ gen.records = <<>>)
        /\ gen.lots # <<>> => gen.records # <<>>
        /\ gen.step = "returned" => (gen.lots # <<>> /\ gen.records # <<>>)

====
